---- MODULE Spec2Model ----
(***************************************************************************)
(* Event based risk aggregation engine of openquake:                       *)
(*   openquake/calculators/event_based_risk.py                             *)
(* Losses and loss ratios are exact integers here (the code keeps them in  *)
(* 32-bit floats); None is the string "None".                              *)
(***************************************************************************)
EXTENDS Integers, Sequences, FiniteSets, TLC

VARIABLES
  pc,          \* position of the calculator / task / epsilon client
  oqparam,     \* job configuration
  monitor,     \* the Monitor handed to the tasks (gen_args)
  riskinput,   \* the RiskInput of the task under way (its eids)
  outputs,     \* the outputs generated so far by riskmodel.gen_outputs
  result,      \* the dictionary returned by event_based_risk, or "None"
  csm,         \* the source models: ordinal, grp_ids, num_rlzs
  precalc_result,  \* ruptures_by_grp: src_group_id -> the ruptures of the group
  sm_index,    \* how many source models the loop of execute has dispatched
  num_rlzs,    \* the running realization count of execute
  allres,      \* the result iterators, one per source model
  tasks,       \* the submitted tasks: riskinput, state, result
  datastore,   \* key -> dataset
  self_gmfbytes,  \* self.gmfbytes
  sr_num_events,  \* num_events, the running event count of save_results
  cur,         \* the place of save_results in allres (1-based)
  log,         \* what was logged or raised
  riskmodel,   \* the composite risk model: covs
  rng,         \* the state of the global generator numpy.random
  eps0,        \* an EpsilonMatrix0 object, or <<>> when not constructed
  eps1,        \* an EpsilonMatrix1 object, or <<>> when not constructed
  first_read,  \* source -> index -> the value of the first read
  last_read,   \* source -> index -> the value of the last read
  builds,      \* how many times make_eps has run
  quantile_calls, \* how many quantile curves the statistics builder computed
  agg_lr_data, \* the triples (l, r, data) handed to build_agg_curve
  agg_result   \* the dictionary build_agg_curve returned

taskVars == <<oqparam, monitor, riskinput, outputs, result>>
epsVars == <<rng, eps0, eps1, first_read, last_read, builds>>

postVars == <<quantile_calls, agg_lr_data, agg_result>>
calcVars == <<csm, precalc_result, sm_index, num_rlzs, allres, tasks,
              datastore, self_gmfbytes, sr_num_events, cur, log, riskmodel>>
vars == <<pc, oqparam, monitor, riskinput, outputs, result, csm,
          precalc_result, sm_index, num_rlzs, allres, tasks, datastore,
          self_gmfbytes, sr_num_events, cur, log, riskmodel, rng, eps0, eps1,
          first_read, last_read, builds, quantile_calls, agg_lr_data,
          agg_result>>

None == "None"

(* ------------------------------------------------------------------ *)
(* numpy-like helpers                                                   *)
(* ------------------------------------------------------------------ *)
RECURSIVE SumSeq(_)
SumSeq(s) == IF s = <<>> THEN 0 ELSE Head(s) + SumSeq(Tail(s))

Range(s) == {s[i] : i \in DOMAIN s}

MaxOf(S) == CHOOSE x \in S : \A y \in S : y <= x

Zeros(n) == [i \in 1..n |-> 0]

VecAdd(u, v) == [i \in DOMAIN u |-> u[i] + v[i]]

VecScale(u, c) == [i \in DOMAIN u |-> u[i] * c]

\* array.sum(axis=0) of an array of shape (E, I), given as a sequence of rows
ColSum(rows, I) == [c \in 1..I |-> SumSeq([j \in 1..Len(rows) |-> rows[j][c]])]

\* AccumDict.__getitem__ with an accumulator: a missing key reads as accum
AccumGet(d, k, accum) == IF k \in DOMAIN d THEN d[k] ELSE accum

\* d[k] = v on a dictionary
Put(d, k, v) == [x \in DOMAIN d \cup {k} |-> IF x = k THEN v ELSE d[x]]

EmptyDict == [x \in {} |-> 0]

(* ------------------------------------------------------------------ *)
(* the risk model and the exposure (inputs of the calculation)          *)
(* ------------------------------------------------------------------ *)
\* riskmodel.loss_types
loss_types == <<"structural", "contents">>

\* riskmodel.lti: loss type -> index
lti(lt) == CHOOSE l \in 0..(Len(loss_types) - 1) : loss_types[l + 1] = lt

\* the ordinals of the assets of the asset collection
AssetIds == {0, 1}

\* asset.value(loss_type)
AssetValue(aid, loss_type) ==
  IF loss_type = "structural" THEN 100 * (aid + 1) ELSE 30 * (aid + 1)

(* ------------------------------------------------------------------ *)
(* record layouts                                                       *)
(* ------------------------------------------------------------------ *)
build_el_dtypes(insured_losses) ==
  LET I == insured_losses + 1 IN
  [ela_dt |-> [names |-> <<"eid", "aid", "loss">>, I |-> I],
   elt_dt |-> [names |-> <<"eid", "loss">>, I |-> I]]

\* numpy.array([(eid, loss)], elt_dt): the loss field has dt.I columns
EltRecord(dt, eid, loss) == [eid |-> eid, loss |-> [c \in 1..dt.I |-> loss[c]]]

\* numpy.array([(eid, aid, loss)], ela_dt)
ElaRecord(dt, eid, aid, loss) ==
  [eid |-> eid, aid |-> aid, loss |-> [c \in 1..dt.I |-> loss[c]]]

(* ------------------------------------------------------------------ *)
(* _aggregate and event_based_risk (the task)                           *)
(* ------------------------------------------------------------------ *)
\* idx = dict(zip(eids, range(E))): event id -> dense row; a repeated eid
\* keeps its last position
MakeIdx(eids) ==
  [e \in Range(eids) |->
     MaxOf({j \in 1..Len(eids) : eids[j] = e}) - 1]

\* a wrong index lookup: the position inside the output's own event list
Indices_positional(idx, out_eids) == [j \in 1..Len(out_eids) |-> j - 1]

\* indices = numpy.array([idx[eid] for eid in out.eids])
Indices(idx, out_eids) == [j \in 1..Len(out_eids) |-> idx[out_eids[j]]]

\* agglr[indices] += losses: numpy computes agglr[indices] + losses and
\* assigns it back, so that for a repeated index the last assignment stays
FancyAdd(agglr, indices, losses) ==
  [k \in DOMAIN agglr |->
     LET js == {j \in 1..Len(indices) : indices[j] = k} IN
     IF js = {} THEN agglr[k] ELSE VecAdd(agglr[k], losses[MaxOf(js)])]

\* a filter that looks at the last (insured) column only
AssLossData_lastcol(out, i, mon) ==
  LET kept == SelectSeq([j \in 1..Len(out.eids) |-> j],
                        LAMBDA j : out.loss_ratios[i][j][mon.ela_dt.I] > 0)
  IN [n \in 1..Len(kept) |->
        ElaRecord(mon.ela_dt, out.eids[kept[n]], out.assets[i],
                  out.loss_ratios[i][kept[n]])]

\* data = [(eid, aid, loss) for eid, loss in zip(out.eids, loss_ratios)
\*         if loss.sum() > 0], as an array of type ela_dt
AssLossData(out, i, mon) ==
  LET kept == SelectSeq([j \in 1..Len(out.eids) |-> j],
                        LAMBDA j : SumSeq(out.loss_ratios[i][j]) > 0)
  IN [n \in 1..Len(kept) |->
        ElaRecord(mon.ela_dt, out.eids[kept[n]], out.assets[i],
                  out.loss_ratios[i][kept[n]])]

\* the body of the loop over the assets of one output
RECURSIVE AggregateAssets(_, _, _, _, _, _)
AggregateAssets(st, out, i, indices, mon, A) ==
  IF i > Len(out.assets) THEN st
  ELSE
    LET l == out.lr[1]
        I == mon.insured_losses + 1
        loss_type == loss_types[l + 1]
        aid == out.assets[i]
        loss_ratios == out.loss_ratios[i]
        losses == [j \in 1..Len(loss_ratios) |->
                     VecScale(loss_ratios[j], AssetValue(aid, loss_type))]
        avg1 == IF mon.avg_losses
                THEN Put(st.avglosses, out.lr,
                         [AccumGet(st.avglosses, out.lr,
                                   [a \in 0..(A - 1) |-> Zeros(I)])
                            EXCEPT ![aid] =
                              VecAdd(@, VecScale(ColSum(loss_ratios, I),
                                                 mon.ses_ratio))])
                ELSE st.avglosses
        data == AssLossData(out, i, mon)
        ass1 == IF mon.loss_ratios /\ data # <<>>
                THEN Put(st.ass, out.lr,
                         Append(AccumGet(st.ass, out.lr, <<>>), data))
                ELSE st.ass
        agg1 == [st.agg EXCEPT ![out.lr] = FancyAdd(@, indices, losses)]
    IN AggregateAssets([st EXCEPT !.avglosses = avg1, !.ass = ass1,
                                  !.agg = agg1],
                       out, i + 1, indices, mon, A)

\* the body of the loop over the outputs
AggregateOutput(st, out, idx, mon, A, E) ==
  LET I == mon.insured_losses + 1
      indices == Indices(idx, out.eids)
      \* agglr = agg[l, r] creates the dense (E, I) matrix of a new key
      st1 == [st EXCEPT !.lrs = @ \cup {out.lr},
                        !.agg = Put(@, out.lr,
                                    AccumGet(@, out.lr,
                                             [k \in 0..(E - 1) |-> Zeros(I)]))]
  IN AggregateAssets(st1, out, 1, indices, mon, A)

RECURSIVE Aggregate(_, _, _, _, _, _)
Aggregate(st, outs, idx, mon, A, E) ==
  IF outs = <<>> THEN st
  ELSE Aggregate(AggregateOutput(st, Head(outs), idx, mon, A, E),
                 Tail(outs), idx, mon, A, E)

\* a filter that keeps the rows whose total loss is zero
AggRecords_nonneg(eids, agglr, mon) ==
  LET kept == SelectSeq([i \in 1..Len(eids) |-> i - 1],
                        LAMBDA i : SumSeq(agglr[i]) >= 0)
  IN [n \in 1..Len(kept) |->
        EltRecord(mon.elt_dt, eids[kept[n] + 1], agglr[kept[n]])]

\* records = [(eids[i], loss) for i, loss in enumerate(agg[lr])
\*            if loss.sum() > 0], as an array of type elt_dt
AggRecords(eids, agglr, mon) ==
  LET kept == SelectSeq([i \in 1..Len(eids) |-> i - 1],
                        LAMBDA i : SumSeq(agglr[i]) > 0)
  IN [n \in 1..Len(kept) |->
        EltRecord(mon.elt_dt, eids[kept[n] + 1], agglr[kept[n]])]

\* numpy.concatenate(arrays)
RECURSIVE Concatenate(_)
Concatenate(arrays) ==
  IF arrays = <<>> THEN <<>> ELSE Head(arrays) \o Concatenate(Tail(arrays))

\* event_based_risk(riskinput, riskmodel, assetcol, monitor), given the
\* outputs that riskmodel.gen_outputs generates for the riskinput
event_based_risk(ri, outs, mon, A) ==
  LET eids == ri.eids
      E == Len(eids)
      idx == MakeIdx(eids)
      st0 == [agg |-> EmptyDict, ass |-> EmptyDict, avglosses |-> EmptyDict,
              lrs |-> {}]
      st == Aggregate(st0, outs, idx, mon, A, E)
      withrecs == {lr \in st.lrs : AggRecords(eids, st.agg[lr], mon) # <<>>}
      base == [agglosses |-> [lr \in withrecs |->
                                AggRecords(eids, st.agg[lr], mon)],
               asslosses |-> [lr \in {k \in DOMAIN st.ass : st.ass[k] # <<>>}
                                |-> Concatenate(st.ass[lr])],
               gmfbytes |-> mon.gmfbytes]
  IN IF mon.avg_losses
     THEN [agglosses |-> base.agglosses, asslosses |-> base.asslosses,
           gmfbytes |-> base.gmfbytes, avglosses |-> st.avglosses]
     ELSE base

\* monitor = self.monitor.new(...) of gen_args, with the gmfbytes counter
\* that the task fills
gen_args_monitor(oq, gmfbytes) ==
  LET dts == build_el_dtypes(oq.insured_losses) IN
  [ses_ratio |-> oq.ses_ratio, ela_dt |-> dts.ela_dt, elt_dt |-> dts.elt_dt,
   loss_ratios |-> oq.loss_ratios, avg_losses |-> oq.avg_losses,
   insured_losses |-> oq.insured_losses, gmfbytes |-> gmfbytes]

(* ------------------------------------------------------------------ *)
(* one task: the outputs of gen_outputs arrive, event_based_risk returns *)
(* ------------------------------------------------------------------ *)
\* how many outputs gen_outputs yields to one task at most
MaxOutputs == 2

\* riskinput.eids of the task
TaskEids == <<0, 1, 2>>

\* the (loss type index, task-local realization) pairs of the outputs
OutLRs == {<<0, 0>>, <<1, 1>>}

\* (out.eids, out.assets): the events are a part of the events of the
\* task, in any order; the assets are ordinals
OutShapes == {<< <<1>>, <<0, 1>> >>, << <<2, 0>>, <<1>> >>}

\* one row of loss ratios (in tenths): ground, or ground and insured
RatioRows(I) == IF I = 1 THEN {<<0>>, <<3>>} ELSE {<<0, 0>>, <<3, 0>>, <<3, 1>>}

\* the outputs gen_outputs may yield: loss_ratios has shape (assets, E, I)
OutputSet(I) ==
  UNION {
    { [lr |-> lr, eids |-> es, assets |-> as, loss_ratios |-> rows] :
        lr \in OutLRs,
        rows \in [1..Len(as) -> [1..Len(es) -> RatioRows(I)]] } :
    <<es, as>> \in OutShapes }

\* configurations of the job: insured_losses is 0 or 1 as in I = ins + 1
OqTaskParams ==
  [insured_losses : {0, 1}, avg_losses : BOOLEAN, loss_ratios : BOOLEAN,
   ses_ratio : {2}]

\* no post-calculator has run
PostIdle ==
  /\ quantile_calls = 0
  /\ agg_lr_data = <<>>
  /\ agg_result = EmptyDict

\* no epsilon source exists
EpsIdle ==
  /\ rng = 0
  /\ eps0 = <<>>
  /\ eps1 = <<>>
  /\ first_read = [src \in {0, 1} |-> EmptyDict]
  /\ last_read = [src \in {0, 1} |-> EmptyDict]
  /\ builds = 0

\* no calculator is running
CalcIdle ==
  /\ csm = <<>>
  /\ precalc_result = EmptyDict
  /\ sm_index = 0
  /\ num_rlzs = 0
  /\ allres = <<>>
  /\ tasks = <<>>
  /\ datastore = EmptyDict
  /\ self_gmfbytes = 0
  /\ sr_num_events = 0
  /\ cur = 0
  /\ log = <<>>
  /\ riskmodel = [covs |-> FALSE]

InitTask ==
  /\ pc = "task"
  /\ oqparam \in OqTaskParams
  /\ \E gmfbytes \in {8} : monitor = gen_args_monitor(oqparam, gmfbytes)
  /\ riskinput = [eids |-> TaskEids]
  /\ outputs = <<>>
  /\ result = None
  /\ CalcIdle
  /\ EpsIdle
  /\ PostIdle

\* riskmodel.gen_outputs yields the next output
GenOutput ==
  /\ pc = "task"
  /\ Len(outputs) < MaxOutputs
  /\ \E out \in OutputSet(monitor.insured_losses + 1) :
       outputs' = Append(outputs, out)
  /\ UNCHANGED <<pc, oqparam, monitor, riskinput, result>>
  /\ UNCHANGED <<calcVars, epsVars, postVars>>

\* the task returns its dictionary
EventBasedRisk ==
  /\ pc = "task"
  /\ result' = event_based_risk(riskinput, outputs, monitor,
                                Cardinality(AssetIds))
  /\ pc' = "returned"
  /\ UNCHANGED <<oqparam, monitor, riskinput, outputs>>
  /\ UNCHANGED <<calcVars, epsVars, postVars>>

NextTask == GenOutput \/ EventBasedRisk

SpecTask == InitTask /\ [][NextTask]_vars

(* ------------------------------------------------------------------ *)
(* the claims about one task                                            *)
(* ------------------------------------------------------------------ *)
\* column c of the loss of event eid in one output: the loss ratio of every
\* asset of the output at the place of eid in out.eids, times the value
OutTotal(out, eid, c) ==
  SumSeq([i \in 1..Len(out.assets) |->
    SumSeq([j \in 1..Len(out.eids) |->
      IF out.eids[j] = eid
      THEN out.loss_ratios[i][j][c]
             * AssetValue(out.assets[i], loss_types[out.lr[1] + 1])
      ELSE 0])])

\* the total of event eid over every output tagged lr, as I columns
EventTotal(lr, eid, I) ==
  [c \in 1..I |->
     SumSeq([n \in 1..Len(outputs) |->
               IF outputs[n].lr = lr THEN OutTotal(outputs[n], eid, c)
               ELSE 0])]

AllLRs == (0..(Len(loss_types) - 1)) \X (0..1)

AggOf(res, lr) == IF lr \in DOMAIN res.agglosses THEN res.agglosses[lr] ELSE <<>>

AssOf(res, lr) == IF lr \in DOMAIN res.asslosses THEN res.asslosses[lr] ELSE <<>>

\* C6: for every (l, r), agglosses[l, r] holds one record (eid, loss) for
\* exactly the events of the task whose total (sum over the outputs tagged
\* (l, r) and their assets of loss ratio x asset value) is positive, and
\* the loss of the record is that total; a key is present only with records
C6_AggLossesAreTotals ==
  (pc = "returned") =>
    LET I == monitor.insured_losses + 1 IN
    /\ \A lr \in DOMAIN result.agglosses :
         lr \in AllLRs /\ result.agglosses[lr] # <<>>
    /\ \A lr \in AllLRs :
         LET recs == AggOf(result, lr) IN
         /\ \A n \in 1..Len(recs) : recs[n].eid \in Range(riskinput.eids)
         /\ \A eid \in Range(riskinput.eids) :
              LET total == EventTotal(lr, eid, I)
                  at == {n \in 1..Len(recs) : recs[n].eid = eid}
              IN IF SumSeq(total) > 0
                 THEN /\ Cardinality(at) = 1
                      /\ \A n \in at : recs[n].loss = total
                 ELSE at = {}

\* C6 witness: a task returned records built from an output that lists the
\* events out of order and covers a part of them, one event being dropped
C6_Witness ==
  /\ pc = "returned"
  /\ Len(outputs) = 2
  /\ \E n \in 1..Len(outputs) :
       /\ outputs[n].eids = <<2, 0>>
       /\ outputs[n].lr \in DOMAIN result.agglosses
       /\ Len(result.agglosses[outputs[n].lr]) = 2
       /\ result.agglosses[outputs[n].lr][1].eid = 0
  /\ \E lr \in DOMAIN result.agglosses :
       \E eid \in Range(riskinput.eids) :
         \A n \in 1..Len(result.agglosses[lr]) :
           result.agglosses[lr][n].eid # eid

\* the (output, asset, event) places of the task tagged lr
Places(lr) ==
  {<<n, i, j>> \in (1..Len(outputs)) \X (1..2) \X (1..2) :
     /\ outputs[n].lr = lr
     /\ i <= Len(outputs[n].assets)
     /\ j <= Len(outputs[n].eids)}

PlaceRecord(p) ==
  [eid |-> outputs[p[1]].eids[p[3]], aid |-> outputs[p[1]].assets[p[2]],
   loss |-> outputs[p[1]].loss_ratios[p[2]][p[3]]]

MinOf(S) == CHOOSE x \in S : \A y \in S : x <= y

\* sorted(set of integers)
RECURSIVE Sorted(_)
Sorted(S) == IF S = {} THEN <<>> ELSE <<MinOf(S)>> \o Sorted(S \ {MinOf(S)})

\* ebr.multiplicity: the number of events of a rupture
multiplicity(ebr) == Len(ebr.eids)

\* sum(ebr.multiplicity for ebr in rupts)
n_events_of(rupts) == SumSeq([k \in 1..Len(rupts) |-> multiplicity(rupts[k])])

\* num_events = sum(ebr.multiplicity for grp in ruptures_by_grp
\*                  for ebr in ruptures_by_grp[grp])
num_events_of(ruptures_by_grp) ==
  LET grps == Sorted(DOMAIN ruptures_by_grp) IN
  SumSeq([g \in 1..Len(grps) |-> n_events_of(ruptures_by_grp[grps[g]])])

\* seeds = random_seed + numpy.arange(num_events)
SeedsOf(random_seed, num_events) == [k \in 1..num_events |-> random_seed + k - 1]

\* a[start:stop] of numpy, for 0 <= start <= stop: the bounds are clipped
Slice(a, start, stop) ==
  LET lo == IF start < Len(a) THEN start ELSE Len(a)
      hi == IF stop < Len(a) THEN stop ELSE Len(a)
  IN [k \in 1..(hi - lo) |-> a[lo + k]]

\* block_splitter(items, max_weight) with unit weights: consecutive blocks
\* of max_weight items, the last one shorter; no block for no items
RECURSIVE block_splitter(_, _)
block_splitter(items, max_weight) ==
  IF items = <<>> THEN <<>>
  ELSE IF Len(items) <= max_weight THEN <<items>>
  ELSE <<SubSeq(items, 1, max_weight)>>
         \o block_splitter(SubSeq(items, max_weight + 1, Len(items)),
                           max_weight)

\* ruptures_by_grp.get(grp_id, [])
RupturesOf(ruptures_by_grp, grp_id) ==
  IF grp_id \in DOMAIN ruptures_by_grp THEN ruptures_by_grp[grp_id] ELSE <<>>

\* the (grp_id, rupts) pairs visited by the two nested loops, in order
RECURSIVE GrpBlocks(_, _, _)
GrpBlocks(grp_ids, ruptures_by_grp, ruptures_per_block) ==
  IF grp_ids = <<>> THEN <<>>
  ELSE LET blocks == block_splitter(RupturesOf(ruptures_by_grp, Head(grp_ids)),
                                    ruptures_per_block)
       IN [k \in 1..Len(blocks) |-> [grp_id |-> Head(grp_ids),
                                     rupts |-> blocks[k]]]
            \o GrpBlocks(Tail(grp_ids), ruptures_by_grp, ruptures_per_block)

\* the events of a block of ruptures, in the order of the ruptures
RECURSIVE EidsOf(_)
EidsOf(rupts) ==
  IF rupts = <<>> THEN <<>> ELSE Head(rupts).eids \o EidsOf(Tail(rupts))

\* a test that looks at the covs of the risk model only
NoEpsilons_covs_only(oq, covs) == ~covs

\* if ignore_covs or not self.riskmodel.covs
NoEpsilons(oq, covs) == oq.ignore_covs \/ ~covs

\* the body of the loop over the blocks: the epsilon source of the block
\* and the running offset start
RECURSIVE BuildArgs(_, _, _, _, _, _)
BuildArgs(blocks, start, seeds, num_events, oq, covs) ==
  IF blocks = <<>> THEN <<>>
  ELSE
    LET rupts == Head(blocks).rupts
        n_events == n_events_of(rupts)
        matrix0 == ~NoEpsilons(oq, covs) /\ ~oq.asset_correlation
        eps == IF NoEpsilons(oq, covs) THEN [kind |-> None]
               ELSE IF oq.asset_correlation
               THEN [kind |-> "EpsilonMatrix1", num_events |-> num_events,
                     seed |-> oq.master_seed]
               ELSE [kind |-> "EpsilonMatrix0",
                     num_assets |-> Cardinality(AssetIds),
                     seeds |-> Slice(seeds, start, start + n_events)]
        ri == [grp_id |-> Head(blocks).grp_id, rupts |-> rupts,
               eids |-> EidsOf(rupts), eps |-> eps]
    IN <<ri>> \o BuildArgs(Tail(blocks),
                           IF matrix0 THEN start + n_events ELSE start,
                           seeds, num_events, oq, covs)

\* build_starmap(sm_id, ruptures_by_grp, ...): the arguments of the tasks
\* and the attributes of the result iterator
build_starmap(sm, ruptures_by_grp, oq, covs) ==
  LET grp_ids == Sorted(sm.grp_ids)
      num_events == num_events_of(ruptures_by_grp)
      seeds == SeedsOf(oq.random_seed, num_events)
      blocks == GrpBlocks(grp_ids, ruptures_by_grp, oq.ruptures_per_block)
      start == 0
  IN [allargs |-> BuildArgs(blocks, start, seeds, num_events, oq, covs),
      attrs |-> [num_ruptures |-> [g \in DOMAIN ruptures_by_grp |->
                                     Len(ruptures_by_grp[g])],
                 num_events |-> num_events,
                 num_rlzs |-> sm.num_rlzs,
                 sm_id |-> sm.ordinal]]

\* ruptures_by_grp[grp].sort(key=operator.attrgetter('serial')): a stable
\* insertion sort
RECURSIVE InsertBySerial(_, _)
InsertBySerial(sorted, ebr) ==
  IF sorted = <<>> THEN <<ebr>>
  ELSE IF sorted[Len(sorted)].serial <= ebr.serial THEN Append(sorted, ebr)
  ELSE Append(InsertBySerial(SubSeq(sorted, 1, Len(sorted) - 1), ebr),
              sorted[Len(sorted)])

RECURSIVE SortBySerial(_)
SortBySerial(rupts) ==
  IF rupts = <<>> THEN <<>>
  ELSE InsertBySerial(SortBySerial(SubSeq(rupts, 1, Len(rupts) - 1)),
                      rupts[Len(rupts)])

(* ------------------------------------------------------------------ *)
(* the datastore and the reducer: save_results, save_losses             *)
(* ------------------------------------------------------------------ *)
\* the decimal digits of n >= 0
RECURSIVE Digits(_)
Digits(n) == IF n < 10 THEN <<n>> ELSE Append(Digits(n \div 10), n % 10)

\* '%03d' % n: at least three digits, padded with zeros
Pct03d(n) ==
  LET d == Digits(n) IN
  IF Len(d) >= 3 THEN d ELSE [k \in 1..(3 - Len(d)) |-> 0] \o d

\* 'rlz-%03d' % n
RlzName(n) == <<"rlz-", Pct03d(n)>>

\* int(rlzname[4:])
RECURSIVE DigitsValue(_)
DigitsValue(d) ==
  IF d = <<>> THEN 0
  ELSE 10 * DigitsValue(SubSeq(d, 1, Len(d) - 1)) + d[Len(d)]

RlzInt(rlzname) == DigitsValue(rlzname[2])

\* 'agg_loss_table/rlz-%03d/%s' % (n, loss_type)
AggKey(n, loss_type) == <<"agg_loss_table", RlzName(n), loss_type>>

\* 'ass_loss_ratios/rlz-%03d/%s' % (n, loss_type)
AssKey(n, loss_type) == <<"ass_loss_ratios", RlzName(n), loss_type>>

AvgKey == <<"avg_losses-rlzs">>

\* 'name' in self.datastore, for a group name
InStore(ds, name) == \E k \in DOMAIN ds : k[1] = name

\* datastore.extend(key, array): the rows are appended to the dataset,
\* which is created when missing
extend(ds, key, array) ==
  IF key \in DOMAIN ds THEN [ds EXCEPT ![key] = @ \o array]
  ELSE Put(ds, key, array)

\* sorted(set of pairs)
RECURSIVE SortedPairs(_)
SortedPairs(S) ==
  IF S = {} THEN <<>>
  ELSE LET m == CHOOSE x \in S : \A y \in S :
                  x[1] < y[1] \/ (x[1] = y[1] /\ x[2] <= y[2])
       IN <<m>> \o SortedPairs(S \ {m})

\* r + offset (save_losses), r + start (save_results)
RlzIndex(r, offset) == r + offset

RECURSIVE ExtendAll(_, _, _, _, _)
ExtendAll(ds, lrs, losses, iskey, offset) ==
  IF lrs = <<>> THEN ds
  ELSE LET l == Head(lrs)[1]
           r == Head(lrs)[2]
           loss_type == loss_types[l + 1]
           key == IF iskey = "agg" THEN AggKey(RlzIndex(r, offset), loss_type)
                  ELSE AssKey(RlzIndex(r, offset), loss_type)
       IN ExtendAll(extend(ds, key, losses[Head(lrs)]), Tail(lrs), losses,
                    iskey, offset)

RECURSIVE AssignAll(_, _, _, _, _)
AssignAll(ds, lrs, losses, iskey, offset) ==
  IF lrs = <<>> THEN ds
  ELSE LET l == Head(lrs)[1]
           r == Head(lrs)[2]
           loss_type == loss_types[l + 1]
           key == IF iskey = "agg" THEN AggKey(RlzIndex(r, offset), loss_type)
                  ELSE AssKey(RlzIndex(r, offset), loss_type)
       IN AssignAll(Put(ds, key, losses[Head(lrs)]), Tail(lrs), losses,
                    iskey, offset)

\* a reducer that stores the arrays of the task in place of the dataset
save_losses_assign(ds, agglosses, asslosses, offset) ==
  AssignAll(AssignAll(ds, SortedPairs(DOMAIN agglosses), agglosses, "agg",
                      offset),
            SortedPairs(DOMAIN asslosses), asslosses, "ass", offset)

\* save_losses(agglosses, asslosses, offset)
save_losses(ds, agglosses, asslosses, offset) ==
  ExtendAll(ExtendAll(ds, SortedPairs(DOMAIN agglosses), agglosses, "agg",
                      offset),
            SortedPairs(DOMAIN asslosses), asslosses, "ass", offset)

\* datastore.create_dset('avg_losses-rlzs', F32, (A, R, L * (ins + 1)))
create_dset(A, R, C) ==
  [i \in (0..(A - 1)) \X (0..(R - 1)) \X (0..(C - 1)) |-> 0]

\* a reducer that overwrites the cells of the dataset
RECURSIVE AddAvgLosses_assign(_, _, _, _, _)
AddAvgLosses_assign(dset, lrs, avglosses, start, ins) ==
  IF lrs = <<>> THEN dset
  ELSE
    LET l == Head(lrs)[1]
        r == Head(lrs)[2]
        losses == avglosses[Head(lrs)]
        d1 == [i \in DOMAIN dset |->
                 IF i[2] = r + start /\ i[3] = l
                 THEN losses[i[1]][1] * AssetValue(i[1], loss_types[l + 1])
                 ELSE IF ins = 1 /\ i[2] = r + start
                         /\ i[3] = l + Len(loss_types)
                 THEN losses[i[1]][2] * AssetValue(i[1], loss_types[l + 1])
                 ELSE dset[i]]
    IN AddAvgLosses_assign(d1, Tail(lrs), avglosses, start, ins)

\* for (l, r), losses in dic.pop('avglosses').items():
\*     dset[:, r + start, l] += losses[:, 0] * vs
\*     if ins: dset[:, r + start, l + self.L] += losses[:, 1] * vs
RECURSIVE AddAvgLosses(_, _, _, _, _)
AddAvgLosses(dset, lrs, avglosses, start, ins) ==
  IF lrs = <<>> THEN dset
  ELSE
    LET l == Head(lrs)[1]
        r == Head(lrs)[2]
        L == Len(loss_types)
        losses == avglosses[Head(lrs)]
        vs == [a \in DOMAIN losses |-> AssetValue(a, loss_types[l + 1])]
        d1 == [i \in DOMAIN dset |->
                 IF i[2] = RlzIndex(r, start) /\ i[3] = l
                 THEN dset[i] + losses[i[1]][1] * vs[i[1]] ELSE dset[i]]
        d2 == IF ins = 1
              THEN [i \in DOMAIN d1 |->
                      IF i[2] = RlzIndex(r, start) /\ i[3] = l + L
                      THEN d1[i] + losses[i[1]][2] * vs[i[1]] ELSE d1[i]]
              ELSE d1
    IN AddAvgLosses(d2, Tail(lrs), avglosses, start, ins)

\* the body of the loop "for dic in res" of save_results, on the datastore
SaveDic(ds, dic, start, oq) ==
  LET ds1 == IF oq.avg_losses
             THEN [ds EXCEPT ![AvgKey] =
                     AddAvgLosses(@, SortedPairs(DOMAIN dic.avglosses),
                                  dic.avglosses, start, oq.insured_losses)]
             ELSE ds
  IN save_losses(ds1, dic.agglosses, dic.asslosses, start)

\* res.rlz_slice = slice(0, res.num_rlzs)
rlz_slice_zero(n, res_num_rlzs) == [start |-> 0, stop |-> res_num_rlzs]

\* res.rlz_slice = slice(num_rlzs, num_rlzs + res.num_rlzs)
rlz_slice(n, res_num_rlzs) == [start |-> n, stop |-> n + res_num_rlzs]

(* ------------------------------------------------------------------ *)
(* the inputs of a calculation                                          *)
(* ------------------------------------------------------------------ *)
\* the ruptures of the groups, from the multiplicities of the ruptures of
\* every group (mults[g + 1][k]): serials and event ids are unique in the
\* calculation and follow the order of the groups
RupturesBefore(mults, g, k) ==
  SumSeq([h \in 1..(g - 1) |-> Len(mults[h])]) + (k - 1)

EventsBefore(mults, g, k) ==
  SumSeq([h \in 1..(g - 1) |-> SumSeq(mults[h])])
    + SumSeq(SubSeq(mults[g], 1, k - 1))

MakeRuptures(mults) ==
  [gid \in {g - 1 : g \in {h \in 1..Len(mults) : mults[h] # <<>>}} |->
     [k \in 1..Len(mults[gid + 1]) |->
        [serial |-> RupturesBefore(mults, gid + 1, k) + 1,
         eids |-> [e \in 1..mults[gid + 1][k] |->
                     EventsBefore(mults, gid + 1, k) + e - 1]]]]

(* ------------------------------------------------------------------ *)
(* EbriskCalculator: execute, the tasks, save_results, post_execute     *)
(* ------------------------------------------------------------------ *)
\* how many source models the logic tree has at most
MaxSM == 2

\* how many ruptures the calculation has at most
MaxRuptures == 2

\* len(rlzs_assoc.realizations) of a source model
NumRlzsChoices == {1, 2}

\* the multiplicities of the ruptures of each source model, one group per
\* source model, every rupture with one event
RuptureCounts ==
  UNION {{c \in [1..n -> 0..MaxRuptures] : SumSeq(c) <= MaxRuptures} :
         n \in 1..MaxSM}

CalcParams ==
  {oq \in [insured_losses : {0, 1}, avg_losses : BOOLEAN,
            loss_ratios : {TRUE}, ses_ratio : {2}, ignore_covs : {FALSE},
            asset_correlation : {FALSE}, random_seed : {42},
            master_seed : {7}, ruptures_per_block : {1}] :
     oq.avg_losses \/ oq.insured_losses = 0}

TaskIdle ==
  /\ monitor = None
  /\ riskinput = None
  /\ outputs = <<>>
  /\ result = None

Init ==
  /\ pc = "start"
  /\ oqparam \in CalcParams
  /\ riskmodel = [covs |-> TRUE]
  /\ \E c \in RuptureCounts :
       /\ \E rl \in [1..Len(c) -> NumRlzsChoices] :
            csm = [i \in 1..Len(c) |->
                     [ordinal |-> i - 1, grp_ids |-> {i - 1},
                      num_rlzs |-> rl[i]]]
       /\ precalc_result = MakeRuptures([i \in 1..Len(c) |->
                                           [k \in 1..c[i] |-> 1]])
  /\ sm_index = 0
  /\ num_rlzs = 0
  /\ allres = <<>>
  /\ tasks = <<>>
  /\ datastore = (<<"events">> :> [num_events |-> None])
  /\ self_gmfbytes = 0
  /\ sr_num_events = 0
  /\ cur = 0
  /\ log = <<>>
  /\ TaskIdle
  /\ EpsIdle
  /\ PostIdle

\* execute, up to its loop: the ruptures of every group are sorted
ExecuteBegin ==
  /\ pc = "start"
  /\ precalc_result' = [g \in DOMAIN precalc_result |->
                          SortBySerial(precalc_result[g])]
  /\ num_rlzs' = 0
  /\ allres' = <<>>
  /\ sm_index' = 0
  /\ pc' = "execute"
  /\ UNCHANGED <<taskVars, csm, tasks, datastore, self_gmfbytes,
                 sr_num_events, cur, log, riskmodel, epsVars,
                 postVars>>

\* one iteration of the loop of execute: build_starmap, submit_all
ExecuteSourceModel ==
  /\ pc = "execute"
  /\ sm_index < Len(csm)
  /\ LET bs == build_starmap(csm[sm_index + 1], precalc_result, oqparam,
                             riskmodel.covs)
         res == [num_ruptures |-> bs.attrs.num_ruptures,
                 num_events |-> bs.attrs.num_events,
                 num_rlzs |-> bs.attrs.num_rlzs,
                 sm_id |-> bs.attrs.sm_id,
                 rlz_slice |-> rlz_slice(num_rlzs, bs.attrs.num_rlzs),
                 queue |-> <<>>]
     IN /\ tasks' = tasks \o [k \in 1..Len(bs.allargs) |->
                                [res |-> Len(allres) + 1,
                                 ri |-> bs.allargs[k], outs |-> <<>>,
                                 state |-> "submitted", result |-> None]]
        /\ allres' = Append(allres, res)
        /\ num_rlzs' = num_rlzs + res.num_rlzs
  /\ sm_index' = sm_index + 1
  /\ UNCHANGED <<pc, taskVars, csm, precalc_result, datastore, self_gmfbytes,
                 sr_num_events, cur, log, riskmodel, epsVars,
                 postVars>>

\* the outputs riskmodel.gen_outputs yields to a task of the calculation:
\* none (with no ground motion field at all), or one output for all the
\* events of the task, tagged with a realization of the source model: of
\* loss type 0 with loss ratios 0, of loss type 0 or 1 with positive ones

CalcKinds == {<<0, 0>>, <<0, 1>>, <<1, 1>>}

CalcOutputs(eids, R, I) ==
  {<<>>} \cup
  { << [lr |-> IF kind[1] = 0 THEN <<0, 0>> ELSE <<1, R - 1>>,
        eids |-> eids, assets |-> <<kind[1]>>,
        loss_ratios |-> << [j \in 1..Len(eids) |->
                              IF kind[2] = 0 THEN Zeros(I)
                              ELSE IF I = 1 THEN <<3>> ELSE <<3, 1>>] >>] >> :
      kind \in CalcKinds }

\* a submitted task runs event_based_risk and its result reaches the
\* result iterator of its source model
TaskReturns(t) ==
  /\ pc \in {"execute", "save_results"}
  /\ tasks[t].state = "submitted"
  /\ \E outs \in CalcOutputs(tasks[t].ri.eids, allres[tasks[t].res].num_rlzs,
                             oqparam.insured_losses + 1) :
       LET mon == gen_args_monitor(oqparam, IF outs = <<>> THEN 0 ELSE 8)
       IN tasks' = [tasks EXCEPT ![t].state = "done",
                                 ![t].outs = outs,
                                 ![t].result =
                                   event_based_risk(tasks[t].ri, outs, mon,
                                                    Cardinality(AssetIds))]
  /\ allres' = [allres EXCEPT ![tasks[t].res].queue = Append(@, t)]
  /\ UNCHANGED <<pc, taskVars, csm, precalc_result, sm_index, num_rlzs,
                 datastore, self_gmfbytes, sr_num_events, cur, log, riskmodel,
                 epsVars, postVars>>

\* the datastore when save_results enters its loop
StoreAtBegin(ds, oq, R) ==
  LET ds1 == Put(ds, <<"csm_info">>, R) IN
  IF oq.avg_losses
  THEN Put(ds1, AvgKey,
           create_dset(Cardinality(AssetIds), R,
                       Len(loss_types) * (oq.insured_losses + 1)))
  ELSE ds1

\* the end of execute and the head of save_results
SaveResultsBegin ==
  /\ pc = "execute"
  /\ sm_index = Len(csm)
  /\ datastore' = StoreAtBegin(datastore, oqparam, num_rlzs)
  /\ sr_num_events' = 0
  /\ self_gmfbytes' = 0
  /\ cur' = 1
  /\ pc' = "save_results"
  /\ UNCHANGED <<taskVars, csm, precalc_result, sm_index, num_rlzs, allres,
                 tasks, log, riskmodel, epsVars,
                 postVars>>

\* one iteration of "for dic in res": the next result of the current
\* source model, in the order of completion
SaveResult ==
  /\ pc = "save_results"
  /\ cur <= Len(allres)
  /\ allres[cur].queue # <<>>
  /\ LET t == Head(allres[cur].queue)
         dic == tasks[t].result
     IN /\ datastore' = SaveDic(datastore, dic, allres[cur].rlz_slice.start,
                                oqparam)
        /\ self_gmfbytes' = self_gmfbytes + dic.gmfbytes
        /\ tasks' = [tasks EXCEPT ![t].state = "saved"]
  /\ allres' = [allres EXCEPT ![cur].queue = Tail(@)]
  /\ UNCHANGED <<pc, taskVars, csm, precalc_result, sm_index, num_rlzs,
                 sr_num_events, cur, log, riskmodel, epsVars,
                 postVars>>

\* the result iterator of the current source model is exhausted
SaveResultsNext ==
  /\ pc = "save_results"
  /\ cur <= Len(allres)
  /\ \A t \in 1..Len(tasks) : tasks[t].res = cur => tasks[t].state = "saved"
  /\ sr_num_events' = sr_num_events + allres[cur].num_events
  /\ cur' = cur + 1
  /\ UNCHANGED <<pc, taskVars, csm, precalc_result, sm_index, num_rlzs,
                 allres, tasks, datastore, self_gmfbytes, log, riskmodel,
            epsVars, postVars>>

\* save_results returns
SaveResultsEnd ==
  /\ pc = "save_results"
  /\ cur > Len(allres)
  /\ datastore' = [datastore EXCEPT ![<<"events">>].num_events = sr_num_events]
  /\ pc' = "post_execute"
  /\ UNCHANGED <<taskVars, csm, precalc_result, sm_index, num_rlzs, allres,
                 tasks, self_gmfbytes, sr_num_events, cur, log, riskmodel,
             epsVars, postVars>>

\* a check that never fires
NoGmfs_never(nbytes) == FALSE

\* if self.gmfbytes == 0: raise RuntimeError
NoGmfs(nbytes) == nbytes = 0

\* post_execute(num_events)
PostExecute ==
  /\ pc = "post_execute"
  /\ IF NoGmfs(self_gmfbytes)
     THEN /\ pc' = "error"
          /\ log' = Append(log, "RuntimeError: No GMFs were generated")
          /\ UNCHANGED datastore
     ELSE /\ pc' = "done"
          /\ datastore' = Put(datastore, <<"job_info">>,
                              [gmfbytes |-> self_gmfbytes])
          /\ log' = IF ~InStore(datastore, "agg_loss_table")
                    THEN log \o <<"info: Generated GMFs",
                                  "warning: No losses were generated">>
                    ELSE Append(log, "info: Generated GMFs")
  /\ UNCHANGED <<taskVars, csm, precalc_result, sm_index, num_rlzs, allres,
                 tasks, self_gmfbytes, sr_num_events, cur, riskmodel,
        epsVars, postVars>>

Next ==
  \/ ExecuteBegin
  \/ ExecuteSourceModel
  \/ \E t \in 1..Len(tasks) : TaskReturns(t)
  \/ SaveResultsBegin
  \/ SaveResult
  \/ SaveResultsNext
  \/ SaveResultsEnd
  \/ PostExecute

Spec == Init /\ [][Next]_vars

(* ------------------------------------------------------------------ *)
(* the claims about the reducer                                         *)
(* ------------------------------------------------------------------ *)
AggregateNames == {"agg_loss_table", "ass_loss_ratios", "avg_losses-rlzs"}

\* the persisted aggregates of a datastore
Aggregates(ds) == [k \in {x \in DOMAIN ds : x[1] \in AggregateNames} |-> ds[k]]

\* the datastore after folding the results of the tasks k.. in the order
\* in which the tasks were dispatched
RECURSIVE FoldInDispatchOrder(_, _)
FoldInDispatchOrder(ds, k) ==
  IF k > Len(tasks) THEN ds
  ELSE FoldInDispatchOrder(
         SaveDic(ds, tasks[k].result, allres[tasks[k].res].rlz_slice.start,
                 oqparam),
         k + 1)

Reduced == pc \in {"post_execute", "done", "error"}

\* C1: once every task result is folded, the persisted aggregates (every
\* agg_loss_table and ass_loss_ratios dataset, avg_losses-rlzs), row order
\* included, are those of any other order of completion of the same task
\* results, hence those of the fold in the order of dispatch
C1_OrderIndependent ==
  Reduced =>
    Aggregates(datastore)
      = Aggregates(FoldInDispatchOrder(
                     StoreAtBegin(EmptyDict, oqparam, num_rlzs), 1))

\* the records under an agg_loss_table key
AggTableKeys(ds) == {k \in DOMAIN ds : k[1] = "agg_loss_table"}

LossTableKeys(ds) ==
  {k \in DOMAIN ds : k[1] \in {"agg_loss_table", "ass_loss_ratios"}}

\* C2: in every state of the store, every record of every agg_loss_table
\* dataset has a total loss (the sum of its loss columns) > 0; an event
\* with zero aggregate loss in its task has no record
C2_Sparsity ==
  \A k \in AggTableKeys(datastore) :
    /\ datastore[k] # <<>>
    /\ \A n \in 1..Len(datastore[k]) : SumSeq(datastore[k][n].loss) > 0

\* C2 witness: a task that consumed ground motion fields and whose only
\* event had zero loss was folded, next to a task that wrote a record
C2_Witness ==
  /\ \E t \in 1..Len(tasks) :
       /\ tasks[t].state = "saved"
       /\ tasks[t].result.gmfbytes > 0
       /\ DOMAIN tasks[t].result.agglosses = {}
  /\ \E k \in AggTableKeys(datastore) : Len(datastore[k]) >= 1

\* no task of the run returned a loss record
NoLossRecords ==
  \A t \in 1..Len(tasks) :
    tasks[t].state = "saved" /\ DOMAIN tasks[t].result.agglosses = {}

Finished == pc \in {"done", "error"}

\* C4 as stated: a run none of whose tasks produces a loss record ends in
\* the error state raised by post_execute, also when gmfbytes > 0
C4_NoLossesIsFatal == (Finished /\ NoLossRecords) => pc = "error"

\* C4 amended: post_execute raises exactly when no task consumed hazard
\* data (gmfbytes = 0); a run without loss records whose tasks consumed
\* hazard data logs a warning and completes
C4_NoGmfsIsFatal ==
  Finished =>
    /\ (pc = "error") <=> (self_gmfbytes = 0)
    /\ pc = "error" => log = <<"RuntimeError: No GMFs were generated">>
    /\ (pc = "done" /\ NoLossRecords) =>
         /\ ~InStore(datastore, "agg_loss_table")
         /\ log[Len(log)] = "warning: No losses were generated"
    /\ (pc = "done" /\ ~NoLossRecords) =>
         \A n \in 1..Len(log) : log[n] # "warning: No losses were generated"

\* C4 witness: a run with tasks that consumed hazard data and produced no
\* loss record has completed
C4_Witness ==
  /\ pc = "done"
  /\ NoLossRecords
  /\ Len(tasks) >= 1
  /\ self_gmfbytes > 0

\* the tasks of the source model whose slice holds the rlz index n
InSlice(i, n) ==
  allres[i].rlz_slice.start <= n /\ n < allres[i].rlz_slice.stop

\* C5: the slices of the source models are contiguous, disjoint and cover
\* 0..num_rlzs-1 in order; every record under a key rlz-n comes from a
\* task of the source model whose slice holds n, and every nonzero cell
\* of column n of avg_losses-rlzs from the average losses of such a task
C5_SlicesAndWrites ==
  /\ \A i \in 1..Len(allres) :
       /\ allres[i].rlz_slice.start
            = SumSeq([j \in 1..(i - 1) |-> allres[j].num_rlzs])
       /\ allres[i].rlz_slice.stop
            = allres[i].rlz_slice.start + csm[i].num_rlzs
  /\ num_rlzs = SumSeq([j \in 1..Len(allres) |-> allres[j].num_rlzs])
  /\ \A k \in LossTableKeys(datastore) :
       \A n \in 1..Len(datastore[k]) :
         \E t \in 1..Len(tasks) :
           /\ datastore[k][n].eid \in Range(tasks[t].ri.eids)
           /\ tasks[t].state = "saved"
           /\ InSlice(tasks[t].res, RlzInt(k[2]))
           /\ <<lti(k[3]), RlzInt(k[2]) - allres[tasks[t].res].rlz_slice.start>>
                \in DOMAIN tasks[t].result.agglosses
  /\ AvgKey \in DOMAIN datastore =>
       \A i \in DOMAIN datastore[AvgKey] :
         datastore[AvgKey][i] # 0 =>
           \E t \in 1..Len(tasks) :
             /\ tasks[t].state = "saved"
             /\ InSlice(tasks[t].res, i[2])
             /\ \E l \in 0..(Len(loss_types) - 1) :
                  <<l, i[2] - allres[tasks[t].res].rlz_slice.start>>
                    \in DOMAIN tasks[t].result.avglosses

\* C5 witness: the second source model wrote a record under a key of its
\* own slice, which starts after the realizations of the first one, and
\* the first source model wrote one too
C5_Witness ==
  /\ Len(allres) = 2
  /\ \E k \in AggTableKeys(datastore) :
       RlzInt(k[2]) >= allres[2].rlz_slice.start /\ RlzInt(k[2]) >= 1
  /\ \E k \in AggTableKeys(datastore) : RlzInt(k[2]) < allres[1].rlz_slice.stop

IsPrefix(a, b) == Len(a) <= Len(b) /\ SubSeq(b, 1, Len(a)) = a

\* C9: every step leaves the records already present under every
\* agg_loss_table and ass_loss_ratios key unchanged and in place: a
\* dataset is only extended at its end, and no key disappears
C9_AppendOnly ==
  [][\A k \in LossTableKeys(datastore) :
       /\ k \in DOMAIN datastore'
       /\ IsPrefix(datastore[k], datastore'[k])]_vars

\* C9 witness: a dataset holds the records of two tasks, one after the other
C9_Witness ==
  \E k \in LossTableKeys(datastore) : Len(datastore[k]) >= 2

(* ------------------------------------------------------------------ *)
(* the dispatch alone: execute and build_starmap on richer rupture sets *)
(* ------------------------------------------------------------------ *)
\* the multiplicities of the ruptures of one source group
GroupMults == {<<>>, <<2>>, <<1, 2, 1>>}

\* how many source groups a source model has
GroupCounts == {1, 2}

StarmapParams ==
  [insured_losses : {0}, avg_losses : {FALSE}, loss_ratios : {TRUE},
   ses_ratio : {2}, ignore_covs : BOOLEAN, asset_correlation : BOOLEAN,
   random_seed : {42}, master_seed : {7}, ruptures_per_block : {1, 2}]

\* reversed(s)
Reversed(s) == [k \in 1..Len(s) |-> s[Len(s) + 1 - k]]

InitStarmap ==
  /\ pc = "start"
  /\ oqparam \in StarmapParams
  /\ riskmodel \in [covs : BOOLEAN]
  /\ \E n \in 1..MaxSM :
       \E gc \in [1..n -> GroupCounts] :
         /\ csm = [i \in 1..n |->
                     [ordinal |-> i - 1,
                      grp_ids |-> {SumSeq(SubSeq(gc, 1, i - 1)) + g - 1 :
                                     g \in 1..gc[i]},
                      num_rlzs |-> 1]]
         /\ \E mults \in [1..SumSeq(gc) -> GroupMults] :
              \E rev \in BOOLEAN :
                \* the pre-calculator hands the ruptures of a group over
                \* in any order
                precalc_result =
                  [g \in DOMAIN MakeRuptures(mults) |->
                     IF rev THEN Reversed(MakeRuptures(mults)[g])
                     ELSE MakeRuptures(mults)[g]]
  /\ sm_index = 0
  /\ num_rlzs = 0
  /\ allres = <<>>
  /\ tasks = <<>>
  /\ datastore = (<<"events">> :> [num_events |-> None])
  /\ self_gmfbytes = 0
  /\ sr_num_events = 0
  /\ cur = 0
  /\ log = <<>>
  /\ TaskIdle
  /\ EpsIdle
  /\ PostIdle

NextStarmap == ExecuteBegin \/ ExecuteSourceModel

SpecStarmap == InitStarmap /\ [][NextStarmap]_vars

\* C3: with asset_correlation off and a risk model with covs, every
\* RiskInput gets a seed range as long as the number of events of its
\* block, and the seed ranges of two distinct RiskInputs of the run are
\* disjoint
C3_DisjointSeedRanges ==
  (~oqparam.asset_correlation /\ ~oqparam.ignore_covs /\ riskmodel.covs) =>
    /\ \A t \in 1..Len(tasks) :
         /\ tasks[t].ri.eps.kind = "EpsilonMatrix0"
         /\ Len(tasks[t].ri.eps.seeds) = n_events_of(tasks[t].ri.rupts)
    /\ \A t1, t2 \in 1..Len(tasks) :
         t1 # t2 =>
           Range(tasks[t1].ri.eps.seeds) \cap Range(tasks[t2].ri.eps.seeds)
             = {}

(* ------------------------------------------------------------------ *)
(* the epsilon sources: EpsilonMatrix0, EpsilonMatrix1                  *)
(* ------------------------------------------------------------------ *)
\* numpy.random.seed(seed): the state of the generator after seeding
np_seed(seed) == seed % 16

\* the state of the generator after one draw
np_step(x) == (5 * x + 3) % 16

\* the deviate drawn in state x
np_value(x) == (x % 5) - 2

\* numpy.random.normal(size=n) from the state x: the n deviates and the
\* state left behind
RECURSIVE np_normal(_, _)
np_normal(x, n) ==
  IF n = 0 THEN [values |-> <<>>, state |-> x]
  ELSE LET rest == np_normal(np_step(x), n - 1)
       IN [values |-> <<np_value(np_step(x))>> \o rest.values,
           state |-> rest.state]

\* a make_eps that seeds the generator once, before the first column
RECURSIVE make_eps_seed_once(_, _, _, _)
make_eps_seed_once(x, num_assets, seeds, i) ==
  IF i > Len(seeds) THEN [eps |-> <<>>, state |-> x]
  ELSE LET col == np_normal(IF i = 1 THEN np_seed(seeds[i]) ELSE x,
                            num_assets)
           rest == make_eps_seed_once(col.state, num_assets, seeds, i + 1)
       IN [eps |-> <<col.values>> \o rest.eps, state |-> rest.state]

\* make_eps: for i, seed in enumerate(self.seeds): numpy.random.seed(seed);
\* eps[:, i] = numpy.random.normal(size=self.num_assets). The matrix is
\* kept by columns; x is the state of the generator
RECURSIVE make_eps(_, _, _, _)
make_eps(x, num_assets, seeds, i) ==
  IF i > Len(seeds) THEN [eps |-> <<>>, state |-> x]
  ELSE LET col == np_normal(np_seed(seeds[i]), num_assets)
           rest == make_eps(col.state, num_assets, seeds, i + 1)
       IN [eps |-> <<col.values>> \o rest.eps, state |-> rest.state]

\* if self.eps is None (the matrix not built is the empty tuple)
NeedsBuild(obj) == obj.eps = <<>>

\* the seed ranges build_starmap hands to EpsilonMatrix0
Eps0Seeds ==
  {Slice(SeedsOf(42, 4), st, st + n) : st \in 0..2, n \in 1..2}

\* the master seeds
Eps1Seeds == {7, 8}

\* the number of events of the correlated source
Eps1Events == {2, 3}

InitEps ==
  /\ pc = "eps"
  /\ rng \in {0, 5}
  /\ eps0 = <<>>
  /\ eps1 = <<>>
  /\ first_read = [src \in {0, 1} |-> EmptyDict]
  /\ last_read = [src \in {0, 1} |-> EmptyDict]
  /\ builds = 0
  /\ PostIdle
  /\ oqparam = None
  /\ CalcIdle
  /\ TaskIdle

\* EpsilonMatrix0(num_assets, seeds)
NewEpsilonMatrix0 ==
  /\ pc = "eps"
  /\ eps0 = <<>>
  /\ \E seeds \in Eps0Seeds :
       eps0' = [num_assets |-> Cardinality(AssetIds), seeds |-> seeds,
                eps |-> <<>>]
  /\ UNCHANGED <<pc, taskVars, calcVars, postVars, rng, eps1, first_read,
                 last_read, builds>>

\* EpsilonMatrix1(num_events, seed)
NewEpsilonMatrix1 ==
  /\ pc = "eps"
  /\ eps1 = <<>>
  /\ \E seed \in Eps1Seeds, n \in Eps1Events :
       LET drawn == np_normal(np_seed(seed), n)
       IN /\ eps1' = [num_events |-> n, seed |-> seed, eps |-> drawn.values]
          /\ rng' = drawn.state
  /\ UNCHANGED <<pc, taskVars, calcVars, postVars, eps0, first_read, last_read,
                 builds>>

\* what a read adds to the log of the reads of source src
LogFirst(src, item, value) ==
  IF item \in DOMAIN first_read[src] THEN first_read
  ELSE [first_read EXCEPT ![src] = Put(@, item, value)]

LogLast(src, item, value) == [last_read EXCEPT ![src] = Put(@, item, value)]

\* EpsilonMatrix0.__getitem__((asset, event))
GetItem0 ==
  /\ pc = "eps"
  /\ eps0 # <<>>
  /\ \E a \in 0..(eps0.num_assets - 1), e \in 0..(Len(eps0.seeds) - 1) :
       LET built == make_eps(rng, eps0.num_assets, eps0.seeds, 1)
           matrix == IF NeedsBuild(eps0) THEN built.eps ELSE eps0.eps
           value == matrix[e + 1][a + 1]
       IN /\ eps0' = [eps0 EXCEPT !.eps = matrix]
          /\ rng' = IF NeedsBuild(eps0) THEN built.state ELSE rng
          /\ builds' = IF NeedsBuild(eps0) THEN builds + 1 ELSE builds
          /\ first_read' = LogFirst(0, <<a, e>>, value)
          /\ last_read' = LogLast(0, <<a, e>>, value)
  /\ UNCHANGED <<pc, taskVars, calcVars, postVars, eps1>>

\* a read that indexes the vector by the asset
getitem1_by_asset(eps, item) == eps[item[1] + 1]

\* return self.eps[item[1]]: item[0] is the asset index, item[1] the
\* event index
getitem1(eps, item) == eps[item[2] + 1]

\* EpsilonMatrix1.__getitem__((asset, event))
GetItem1 ==
  /\ pc = "eps"
  /\ eps1 # <<>>
  /\ \E a \in 0..(Cardinality(AssetIds) - 1), e \in 0..(eps1.num_events - 1) :
       LET item == <<a, e>>
           value == getitem1(eps1.eps, item)
       IN /\ first_read' = LogFirst(1, item, value)
          /\ last_read' = LogLast(1, item, value)
  /\ UNCHANGED <<pc, taskVars, calcVars, postVars, rng, eps0, eps1, builds>>

NextEps == NewEpsilonMatrix0 \/ NewEpsilonMatrix1 \/ GetItem0 \/ GetItem1

SpecEps == InitEps /\ [][NextEps]_vars

\* the deviate of (asset, event) that the seeds alone determine
SeededDeviate(seed, k) == np_normal(np_seed(seed), k).values[k]

\* C8: every read of an index returns the value of the first read of that
\* index, and that value is the one the seeds of the source determine;
\* EpsilonMatrix0 has no matrix before its first read, has one after it,
\* and make_eps runs once at most
C8_EpsilonDeterminism ==
  /\ \A src \in {0, 1} :
       /\ DOMAIN last_read[src] = DOMAIN first_read[src]
       /\ \A item \in DOMAIN first_read[src] :
            last_read[src][item] = first_read[src][item]
  /\ \A item \in DOMAIN first_read[0] :
       first_read[0][item]
         = SeededDeviate(eps0.seeds[item[2] + 1], item[1] + 1)
  /\ \A item \in DOMAIN first_read[1] :
       first_read[1][item] = SeededDeviate(eps1.seed, item[2] + 1)
  /\ eps0 # <<>> =>
       /\ (DOMAIN first_read[0] = {}) <=> (eps0.eps = <<>>)
       /\ builds = (IF eps0.eps = <<>> THEN 0 ELSE 1)
  /\ eps0 = <<>> => builds = 0

\* C8 witness: an index of the independent source was read after the
\* correlated source reseeded the generator, and an index of each source
\* was read
C8_Witness ==
  /\ eps0 # <<>> /\ eps1 # <<>>
  /\ Cardinality(DOMAIN first_read[0]) >= 2
  /\ DOMAIN first_read[1] # {}
  /\ builds = 1
  /\ rng # make_eps(0, eps0.num_assets, eps0.seeds, 1).state

(* ------------------------------------------------------------------ *)
(* the post-calculator: EbrPostCalculator                               *)
(* ------------------------------------------------------------------ *)
\* the names under a group of the datastore: for name in datastore[group]
GroupNames(ds, group) ==
  {k[2] : k \in {x \in DOMAIN ds : Len(x) = 3 /\ x[1] = group}}

\* self.rlzs_assoc.realizations, the weights of the realizations in twelfths
Realizations(ds) == ds[<<"csm_info">>].realizations

\* group_array(data, 'aid')[aid]['loss'][:, c]: the ratios of an asset
RECURSIVE RatiosOf(_, _, _)
RatiosOf(data, aid, c) ==
  IF data = <<>> THEN <<>>
  ELSE (IF Head(data).aid = aid THEN <<Head(data).loss[c]>> ELSE <<>>)
       \o RatiosOf(Tail(data), aid, c)

\* the curve builder cb(assets, ratios_by_aid, ses_ratio): the assets with
\* ratios, and for each of them and each loss column one curve, held as the
\* area below it
cb(data, ses_ratio, I) ==
  [aids |-> {row.aid : row \in Range(data)},
   curves |-> [a \in {row.aid : row \in Range(data)} |->
                 [c \in 1..I |-> ses_ratio * SumSeq(RatiosOf(data, a, c))]]]

\* save_rcurves: rcurves[cb.loss_type][aids, r] = curves.reshape(A, I, L)
\* for every 'ass_loss_ratios/<rlzname>/<loss_type>' of the datastore with a
\* user-provided curve builder; a curve of one column fills both columns
FilledCurves(ds, oq, rm, R) ==
  LET I == oq.insured_losses + 1 IN
  [x \in Range(loss_types) \X AssetIds \X (0..(R - 1)) \X {0, 1} |->
     LET key == <<"ass_loss_ratios", RlzName(x[3]), x[1]>> IN
     IF /\ RlzName(x[3]) \in GroupNames(ds, "ass_loss_ratios")
        /\ key \in DOMAIN ds
        /\ rm.user_provided
        /\ x[2] \in cb(ds[key], oq.ses_ratio, I).aids
     THEN cb(ds[key], oq.ses_ratio, I).curves[x[2]][IF I = 1 THEN 1
                                                    ELSE x[4] + 1]
     ELSE 0]

\* save_rcurves(rcurves, I): reading the group 'ass_loss_ratios' of a
\* datastore without it raises KeyError
save_rcurves(ds, oq, rm, R) ==
  IF ~InStore(ds, "ass_loss_ratios")
  THEN [error |-> "KeyError: ass_loss_ratios", ds |-> ds]
  ELSE [error |-> None,
        ds |-> Put(ds, <<"rcurves-rlzs">>, FilledCurves(ds, oq, rm, R))]

\* cb.build_loss_maps(assetcol.array, rcurves): for each realization the
\* losses of the assets at the conditional poes
build_loss_maps(rcurves, loss_type, a, r, poes) ==
  [j \in 1..Len(poes) |-> AssetValue(a, loss_type) * rcurves[loss_type, a, r, 0]]

\* save_loss_maps(N, R)
save_loss_maps(ds, oq, rm, R) ==
  IF oq.conditional_loss_poes # <<>> /\ <<"rcurves-rlzs">> \in DOMAIN ds
  THEN Put(ds, <<"loss_maps-rlzs">>,
           [x \in Range(loss_types) \X AssetIds \X (0..(R - 1)) |->
              IF rm.user_provided
              THEN build_loss_maps(ds[<<"rcurves-rlzs">>], x[1], x[2], x[3],
                                   oq.conditional_loss_poes)
              ELSE Zeros(Len(oq.conditional_loss_poes))])
  ELSE ds

\* sorted(losses, reverse=True)
RECURSIVE SortDesc(_)
SortDesc(s) ==
  IF s = <<>> THEN <<>>
  ELSE LET i == CHOOSE i \in 1..Len(s) : \A j \in 1..Len(s) : s[j] <= s[i]
       IN <<s[i]>> \o SortDesc([j \in 1..(Len(s) - 1) |->
                                  IF j < i THEN s[j] ELSE s[j + 1]])

\* scientific.event_based(loss, ses_ratio, curve_resolution): the losses in
\* descending order on curve_resolution points, each with a poe
\* proportional to its rank and to ses_ratio
event_based(loss, ses_ratio, C) ==
  [losses |-> [i \in 1..C |->
                 IF i <= Len(loss) THEN SortDesc(loss)[i] ELSE 0],
   poes |-> [i \in 1..C |-> i * ses_ratio],
   all |-> loss, ses_ratio |-> ses_ratio]

\* scientific.average_loss((losses, poes)): the area below the curve
average_loss(curve) == curve.ses_ratio * SumSeq(curve.all)

\* a read of the ground column whatever the column asked for
LossColumn_ground(data, c) == [j \in 1..Len(data) |-> data[j].loss[1]]

\* data['loss'][:, c]
LossColumn(data, c) == [j \in 1..Len(data) |-> data[j].loss[c]]

\* build_agg_curve(lr_data, insured_losses, ses_ratio, curve_resolution, L,
\* monitor): the dictionary (l, r, name) -> array
RECURSIVE build_agg_curve(_, _, _, _)
build_agg_curve(lr_data, insured_losses, ses_ratio, C) ==
  IF lr_data = <<>> THEN EmptyDict
  ELSE
    LET l == Head(lr_data)[1]
        r == Head(lr_data)[2]
        data == Head(lr_data)[3]
        rest == build_agg_curve(Tail(lr_data), insured_losses, ses_ratio, C)
        ground == event_based(LossColumn(data, 1), ses_ratio, C)
        ins == event_based(LossColumn(data, 2), ses_ratio, C)
        r1 == Put(Put(Put(rest, <<l, r, "losses">>, ground.losses),
                      <<l, r, "poes">>, ground.poes),
                  <<l, r, "avg">>, average_loss(ground))
    IN IF Len(data) = 0 THEN rest
       ELSE IF insured_losses = 1
       THEN Put(Put(Put(r1, <<l, r, "losses_ins">>, ins.losses),
                    <<l, r, "poes_ins">>, ins.poes),
                <<l, r, "avg_ins">>, average_loss(ins))
       ELSE r1

\* the fields of loss_curve_dt for one loss type
CurveNames(insured_losses) ==
  IF insured_losses = 1
  THEN {"losses", "poes", "avg", "losses_ins", "poes_ins", "avg_ins"}
  ELSE {"losses", "poes", "avg"}

\* a set of triples as a list
RECURSIVE SetToSeq(_)
SetToSeq(S) ==
  IF S = {} THEN <<>>
  ELSE LET x == CHOOSE x \in S : TRUE IN <<x>> \o SetToSeq(S \ {x})

\* agg_curve = numpy.zeros(R, loss_curve_dt)
\* for l, r, name in result: agg_curve[lts[l]][name][r] = result[l, r, name]
fill_agg_curve(res, oq, R) ==
  [x \in Range(loss_types) \X CurveNames(oq.insured_losses)
           \X (0..(R - 1)) |->
     IF <<lti(x[1]), x[3], x[2]>> \in DOMAIN res
     THEN res[<<lti(x[1]), x[3], x[2]>>]
     ELSE IF x[2] \in {"avg", "avg_ins"} THEN 0
     ELSE Zeros(oq.loss_curve_resolution)]

\* EbrPostCalculator.build_agg_curve: one curve per realization, built from
\* the datasets of 'agg_loss_table' and stored as 'agg_curve-rlzs'
store_agg_curve(ds, oq, R) ==
  LET C == oq.loss_curve_resolution
      lr_data ==
        SetToSeq({<<lti(k[3]), RlzInt(k[2]), ds[k]>> :
                    k \in {x \in DOMAIN ds :
                             Len(x) = 3 /\ x[1] = "agg_loss_table"}})
      res == build_agg_curve(lr_data, oq.insured_losses, oq.ses_ratio, C)
  IN Put(ds, <<"agg_curve-rlzs">>, fill_agg_curve(res, oq, R))

\* numpy.argsort(data): the positions of data in ascending order of value
RECURSIVE argsort(_, _)
argsort(data, left) ==
  IF left = {} THEN <<>>
  ELSE LET i == CHOOSE i \in left :
                  \A j \in left :
                    data[i] < data[j] \/ (data[i] = data[j] /\ i <= j)
       IN <<i>> \o argsort(data, left \ {i})

\* numpy.cumsum
cumsum(s) == [i \in 1..Len(s) |-> SumSeq(SubSeq(s, 1, i))]

\* numpy.interp(x, xp, fp), xp ascending: the value as a fraction <<num, den>>
interp(x, xp, fp) ==
  IF x <= xp[1] THEN <<fp[1], 1>>
  ELSE IF x >= xp[Len(xp)] THEN <<fp[Len(fp)], 1>>
  ELSE LET i == CHOOSE i \in 1..(Len(xp) - 1) : xp[i] <= x /\ x < xp[i + 1]
           den == xp[i + 1] - xp[i]
       IN <<fp[i] * den + (fp[i + 1] - fp[i]) * (x - xp[i]), den>>

\* scientific.quantile_curve(curves, quantile, weights): the weighted
\* order statistic, interpolated between the cumulated weights
quantile_curve(data, quantile, weights) ==
  LET sorted_idxs == argsort(data, 1..Len(data))
      sorted_weights == [i \in 1..Len(data) |-> weights[sorted_idxs[i]]]
      sorted_data == [i \in 1..Len(data) |-> data[sorted_idxs[i]]]
  IN interp(quantile, cumsum(sorted_weights), sorted_data)

\* scientific.mean_curve(curves, weights): the weighted sum, in twelfths
mean_curve(data, weights) ==
  SumSeq([i \in 1..Len(data) |-> data[i] * weights[i]])

\* _old_loss_curves(asset_values, rcurves[:, rlz.ordinal, c], ratios) for
\* every realization: the loss curves of an asset
LossCurves(rcurves, loss_type, a, c, R) ==
  [r \in 1..R |-> AssetValue(a, loss_type) * rcurves[loss_type, a, r - 1, c]]

\* StatsBuilder.get_curves_maps(data_by_lt, oq.loss_ratios): mean and
\* quantile loss curves over the realizations, and the loss maps of those
get_curves_maps(ds, oq, rlzs) ==
  LET rcurves == ds[<<"rcurves-rlzs">>]
      stat(lt, a, c) ==
        [mean |-> mean_curve(LossCurves(rcurves, lt, a, c, Len(rlzs)), rlzs),
         quantiles |->
           [q \in 1..Len(oq.quantile_loss_curves) |->
              quantile_curve(LossCurves(rcurves, lt, a, c, Len(rlzs)),
                             oq.quantile_loss_curves[q], rlzs)]]
      loss_curves ==
        [x \in Range(loss_types) \X AssetIds \X (0..oq.insured_losses) |->
           stat(x[1], x[2], x[3])]
  IN [loss_curves |-> loss_curves,
      loss_maps |->
        [x \in Range(loss_types) \X AssetIds |->
           [j \in 1..Len(oq.conditional_loss_poes) |->
              loss_curves[x[1], x[2], 0].mean]],
      quantile_calls |->
        Len(oq.quantile_loss_curves) * Len(loss_types)
          * Cardinality(AssetIds) * (oq.insured_losses + 1)]

\* compute_store_stats(rlzs, builder)
compute_store_stats(ds, oq, rlzs) ==
  LET st == get_curves_maps(ds, oq, rlzs)
      ds1 == Put(ds, <<"loss_curves-stats">>, st.loss_curves)
  IN IF oq.conditional_loss_poes # <<>>
     THEN Put(ds1, <<"loss_maps-stats">>, st.loss_maps)
     ELSE ds1

\* a condition that computes the statistics of any number of realizations
HasManyRlzs_any(rlzs) == Len(rlzs) >= 1

\* if len(rlzs) > 1
HasManyRlzs(rlzs) == Len(rlzs) > 1

\* build_stats: the aggregate curves when there is an 'agg_loss_table',
\* the statistics when there are several realizations and 'rcurves-rlzs'
build_stats(ds, oq) ==
  LET rlzs == Realizations(ds)
      ds1 == IF InStore(ds, "agg_loss_table")
             THEN store_agg_curve(ds, oq, Len(rlzs)) ELSE ds
      stats == HasManyRlzs(rlzs) /\ <<"rcurves-rlzs">> \in DOMAIN ds1
  IN [ds |-> IF stats THEN compute_store_stats(ds1, oq, rlzs) ELSE ds1,
      quantile_calls |->
        IF stats THEN get_curves_maps(ds1, oq, rlzs).quantile_calls ELSE 0]

\* the largest number of realizations of the logic tree
MaxRlzs == 2

\* the weights of R realizations, in twelfths
RlzWeights(R) ==
  {[r \in 1..R |-> 12 \div R]}
    \cup (IF R = 2 THEN {<<4, 8>>, <<9, 3>>} ELSE {})

\* the configurations of the job seen by the post-calculator; the quantiles
\* are in twelfths
PostParams ==
  [insured_losses : {0, 1}, loss_ratios : BOOLEAN,
   conditional_loss_poes : {<<>>, <<1>>},
   quantile_loss_curves : {<<>>, <<6>>, <<3, 9>>},
   loss_curve_resolution : {2}, ses_ratio : {2}]

\* the asset loss ratios the ebrisk calculator left for (r, loss_type)
PostAssRows(oq, r, loss_type) ==
  LET dt == build_el_dtypes(oq.insured_losses).ela_dt IN
  IF loss_type = "structural"
  THEN <<ElaRecord(dt, 0, 0, <<1 + 2 * r, 1>>), ElaRecord(dt, 1, 1, <<2, 0>>),
         ElaRecord(dt, 2, 0, <<3, 2>>)>>
  ELSE <<ElaRecord(dt, 1, 1, <<r + 1, 1>>)>>

\* the aggregate losses the ebrisk calculator left for (r, loss_type):
\* for every event, the losses of the assets with the ratios of PostAssRows
PostAggRows(oq, r, loss_type) ==
  LET dt == build_el_dtypes(oq.insured_losses).elt_dt
      rows == PostAssRows(oq, r, loss_type)
      eids == Sorted({rows[j].eid : j \in 1..Len(rows)})
      total(eid) ==
        [c \in 1..dt.I |->
           SumSeq([j \in 1..Len(rows) |->
                     IF rows[j].eid = eid
                     THEN rows[j].loss[c] * AssetValue(rows[j].aid, loss_type)
                     ELSE 0])]
  IN [n \in 1..Len(eids) |-> EltRecord(dt, eids[n], total(eids[n]))]

\* which (r, loss_type) have a dataset: none, the first pair only, or all
PostKeys(R) ==
  {{}, {<<0, "structural">>}, (0..(R - 1)) \X Range(loss_types)}

\* the datastore the ebrisk calculator left behind
PostStore(oq, rlzs, asskeys, aggkeys) ==
  [k \in {<<"csm_info">>, <<"oqparam">>}
         \cup {AssKey(x[1], x[2]) : x \in asskeys}
         \cup {AggKey(x[1], x[2]) : x \in aggkeys} |->
     IF k = <<"csm_info">> THEN [realizations |-> rlzs]
     ELSE IF k = <<"oqparam">> THEN oq
     ELSE IF k[1] = "ass_loss_ratios"
     THEN PostAssRows(oq, RlzInt(k[2]), k[3])
     ELSE PostAggRows(oq, RlzInt(k[2]), k[3])]

InitPost ==
  /\ pc = "post"
  /\ oqparam \in PostParams
  /\ riskmodel \in [covs : {TRUE}, user_provided : BOOLEAN]
  /\ \E R \in 1..MaxRlzs :
       \E rlzs \in RlzWeights(R), asskeys \in PostKeys(R),
          aggkeys \in PostKeys(R) :
         \* the asset ratios are stored when loss_ratios is set, for the
         \* pairs that have aggregate losses
         /\ asskeys = (IF oqparam.loss_ratios THEN aggkeys ELSE {})
         /\ datastore = PostStore(oqparam, rlzs, asskeys, aggkeys)
         \* what post_execute of the ebrisk calculator logged
         /\ log = IF aggkeys = {}
                  THEN <<"info: Generated GMFs",
                         "warning: No losses were generated">>
                  ELSE <<"info: Generated GMFs">>
  /\ csm = <<>>
  /\ precalc_result = EmptyDict
  /\ sm_index = 0
  /\ num_rlzs = 0
  /\ allres = <<>>
  /\ tasks = <<>>
  /\ self_gmfbytes = 0
  /\ sr_num_events = 0
  /\ cur = 0
  /\ TaskIdle
  /\ EpsIdle
  /\ PostIdle

\* EbrPostCalculator.execute: save_rcurves when loss_ratios is set,
\* save_loss_maps when conditional_loss_poes is set, then build_stats
EbrPostCalculator_execute ==
  /\ pc = "post"
  /\ LET oq == oqparam
         R == Len(Realizations(datastore))
         saved == IF oq.loss_ratios
                  THEN save_rcurves(datastore, oq, riskmodel, R)
                  ELSE [error |-> None, ds |-> datastore]
         ds2 == IF oq.conditional_loss_poes # <<>>
                THEN save_loss_maps(saved.ds, oq, riskmodel, R)
                ELSE saved.ds
         built == build_stats(ds2, datastore[<<"oqparam">>])
     IN IF saved.error # None
        THEN /\ pc' = "post_error"
             /\ log' = Append(log, saved.error)
             /\ UNCHANGED <<datastore, quantile_calls>>
        ELSE /\ pc' = "post_done"
             /\ datastore' = built.ds
             /\ quantile_calls' = quantile_calls + built.quantile_calls
             /\ UNCHANGED log
  /\ UNCHANGED <<taskVars, csm, precalc_result, sm_index, num_rlzs, allres,
                 tasks, self_gmfbytes, sr_num_events, cur, riskmodel, epsVars,
                 agg_lr_data, agg_result>>

NextPost == EbrPostCalculator_execute

SpecPost == InitPost /\ [][NextPost]_vars

\* the statistics datasets of the datastore
StatsKeys == {<<"loss_curves-stats">>, <<"loss_maps-stats">>}

\* the post-calculator has run to its end on one realization with curves
OneRlzDone ==
  /\ pc = "post_done"
  /\ Len(Realizations(datastore)) = 1
  /\ <<"rcurves-rlzs">> \in DOMAIN datastore

TaskRatioSum(t, a, l, r, c) ==
  LET outs == tasks[t].outs IN
  SumSeq([n \in 1..Len(outs) |->
    IF outs[n].lr # <<l, r>> THEN 0
    ELSE SumSeq([i \in 1..Len(outs[n].assets) |->
           IF outs[n].assets[i] # a THEN 0
           ELSE SumSeq([j \in 1..Len(outs[n].eids) |->
                          outs[n].loss_ratios[i][j][c]])])])

\* the tasks whose result save_results has folded
Folded == {t \in 1..Len(tasks) : tasks[t].state = "saved"}

\* what the cell (a, R, col) of 'avg_losses-rlzs' must hold once the tasks
\* of the set T are folded: col is l for the ground and l + L for the
\* insured losses
ExpectedAvg(T, a, R, col) ==
  LET L == Len(loss_types)
      l == col % L
      c == (col \div L) + 1
  IN AssetValue(a, loss_types[l + 1]) * oqparam.ses_ratio
       * SumSeq([t \in 1..Len(tasks) |->
                   IF t \in T
                   THEN TaskRatioSum(t, a, l,
                                     R - allres[tasks[t].res].rlz_slice.start,
                                     c)
                   ELSE 0])

\* once save_results has folded every task the dataset holds the
\* contributions of all of them, and without avg_losses there is no dataset
\* and no 'avglosses' entry in any result
AvgLossesState ==
  /\ pc \in {"post_execute", "done", "error"} =>
       IF oqparam.avg_losses
       THEN /\ AvgKey \in DOMAIN datastore
            /\ DOMAIN datastore[AvgKey]
                 = AssetIds \X (0..(num_rlzs - 1))
                     \X (0..(Len(loss_types) * (oqparam.insured_losses + 1)
                               - 1))
            /\ \A x \in DOMAIN datastore[AvgKey] :
                 datastore[AvgKey][x] = ExpectedAvg(Folded, x[1], x[2], x[3])
       ELSE AvgKey \notin DOMAIN datastore
  /\ pc = "save_results" =>
       (AvgKey \in DOMAIN datastore <=> oqparam.avg_losses)
  /\ pc \in {"start", "execute"} => AvgKey \notin DOMAIN datastore
  /\ \A t \in 1..Len(tasks) :
       tasks[t].state # "submitted" =>
         ("avglosses" \in DOMAIN tasks[t].result <=> oqparam.avg_losses)

\* a step never lowers a cell of the dataset and never removes the dataset
AvgLossesStep ==
  AvgKey \in DOMAIN datastore =>
    /\ AvgKey \in DOMAIN datastore'
    /\ \A x \in DOMAIN datastore[AvgKey] :
         datastore[AvgKey][x] <= datastore'[AvgKey][x]

\* C11: with avg_losses, once every task is folded, avg_losses-rlzs[a, r +
\* start, l] is the asset value times ses_ratio times the sum of the ground
\* loss ratios of the asset for (l, r) over the tasks of the source model
\* and their events, column l + L the same for the insured ratios; the
\* reducer only adds to the dataset; without avg_losses the dataset is never
\* created and no task returns 'avglosses'
C11_AvgLosses == []AvgLossesState /\ [][AvgLossesStep]_vars

\* C11 witness: a finished run with insured losses in which two tasks of
\* one source model added to the same cell, ground and insured
C11_Witness ==
  /\ pc = "done"
  /\ oqparam.avg_losses /\ oqparam.insured_losses = 1
  /\ \E x \in DOMAIN datastore[AvgKey] :
       /\ x[3] < Len(loss_types)
       /\ Cardinality({t \in Folded :
                         ExpectedAvg({t}, x[1], x[2], x[3]) > 0}) >= 2
       /\ datastore[AvgKey][<<x[1], x[2], x[3] + Len(loss_types)>>] > 0

\* C12: every read of the correlated source at (asset, event) returns the
\* deviate drawn for that event at construction, so that the reads of two
\* assets at the same event are equal
C12_SameForAllAssets ==
  /\ \A item \in DOMAIN last_read[1] :
       /\ last_read[1][item] = eps1.eps[item[2] + 1]
       /\ first_read[1][item] = eps1.eps[item[2] + 1]
  /\ \A i1, i2 \in DOMAIN last_read[1] :
       i1[2] = i2[2] => last_read[1][i1] = last_read[1][i2]

\* C12 witness: two assets were read at the same event, and an event with
\* another deviate was read too
C12_Witness ==
  /\ eps1 # <<>>
  /\ \E i1, i2, i3 \in DOMAIN last_read[1] :
       /\ i1[2] = i2[2] /\ i1[1] # i2[1]
       /\ last_read[1][i3] # last_read[1][i1]

\* every source model has been dispatched
AllSubmitted == pc = "execute" /\ sm_index = Len(csm)

\* C13: with ignore_covs set or a risk model without covs every RiskInput
\* has no epsilon source, whatever asset_correlation is; otherwise every
\* RiskInput has the correlated source when asset_correlation is set and
\* the independent one when it is not
C13_EpsilonSourceChoice ==
  \A t \in 1..Len(tasks) :
    LET eps == tasks[t].ri.eps IN
    IF oqparam.ignore_covs \/ ~riskmodel.covs
    THEN eps = [kind |-> None]
    ELSE IF oqparam.asset_correlation
    THEN /\ eps.kind = "EpsilonMatrix1"
         /\ eps.seed = oqparam.master_seed
         /\ eps.num_events = num_events_of(precalc_result)
    ELSE /\ eps.kind = "EpsilonMatrix0"
         /\ eps.num_assets = Cardinality(AssetIds)

\* C13 witness: all the source models are dispatched, with several
\* RiskInputs, ignore_covs set on a risk model that has covs and
\* asset_correlation set
C13_Witness ==
  /\ AllSubmitted
  /\ Len(tasks) >= 2
  /\ oqparam.ignore_covs /\ oqparam.asset_correlation /\ riskmodel.covs

\* the messages the calculators log as warnings
Warnings == {"warning: No losses were generated"}

\* a warning is in the log
WarningLogged == Range(log) \cap Warnings # {}

\* what the post-calculator leaves out when an artifact is missing: no
\* agg_curve-rlzs without agg_loss_table, no loss maps and no statistics
\* without rcurves-rlzs, zero curves for a pair without asset loss ratios
PostDegrades ==
  /\ ~InStore(datastore, "agg_loss_table") =>
       <<"agg_curve-rlzs">> \notin DOMAIN datastore
  /\ <<"rcurves-rlzs">> \notin DOMAIN datastore =>
       {<<"loss_maps-rlzs">>, <<"loss_curves-stats">>, <<"loss_maps-stats">>}
         \cap DOMAIN datastore = {}
  /\ <<"rcurves-rlzs">> \in DOMAIN datastore =>
       \A x \in DOMAIN datastore[<<"rcurves-rlzs">>] :
         AssKey(x[3], x[1]) \notin DOMAIN datastore =>
           datastore[<<"rcurves-rlzs">>][x] = 0

\* an artifact the post-calculator reads is missing from the store
ArtifactMissing ==
  \/ ~InStore(datastore, "agg_loss_table")
  \/ <<"rcurves-rlzs">> \notin DOMAIN datastore
  \/ \E r \in 0..(Len(Realizations(datastore)) - 1),
        lt \in Range(loss_types) : AssKey(r, lt) \notin DOMAIN datastore

\* C14: the post-calculator never ends in an error; when it has run, the
\* outputs of a missing artifact are not produced, and a missing artifact
\* is logged as a warning
C14_MissingArtifactsGraceful ==
  /\ pc # "post_error"
  /\ pc = "post_done" =>
       /\ PostDegrades
       /\ ArtifactMissing => WarningLogged

(* ------------------------------------------------------------------ *)
(* build_agg_curve on its inputs                                        *)
(* ------------------------------------------------------------------ *)
\* the arrays of aggregate losses a triple can carry: none, one or two
\* records of type elt_dt
AggDataChoices(insured_losses) ==
  LET dt == build_el_dtypes(insured_losses).elt_dt IN
  {<<>>,
   <<EltRecord(dt, 0, <<100, 40>>)>>,
   <<EltRecord(dt, 0, <<100, 40>>), EltRecord(dt, 2, <<300, 0>>)>>}

\* the pairs (l, r) of a calculation with R realizations, as for rlzstr in
\* agg_loss_table: for lt, dset in agg_loss_table[rlzstr].items() lists them
AggPairs(R) ==
  [n \in 1..(R * Len(loss_types)) |->
     <<(n - 1) % Len(loss_types), (n - 1) \div Len(loss_types)>>]

\* lr_data for a choice of the pairs that have a dataset and of their data
MakeLrData(pairs, has, data) ==
  LET kept == SelectSeq([n \in 1..Len(pairs) |-> n], LAMBDA n : has[n])
  IN [k \in 1..Len(kept) |->
        <<pairs[kept[k]][1], pairs[kept[k]][2], data[kept[k]]>>]

InitAggCurve ==
  /\ pc = "agg_curve"
  /\ oqparam \in [insured_losses : {0, 1}, ses_ratio : {2},
                  loss_curve_resolution : {2}]
  /\ \E R \in 1..MaxRlzs :
       /\ num_rlzs = R
       /\ \E has \in [1..(R * Len(loss_types)) -> BOOLEAN] :
            \E data \in [1..(R * Len(loss_types)) ->
                           AggDataChoices(oqparam.insured_losses)] :
              /\ \A n \in 1..(R * Len(loss_types)) :
                   ~has[n] => data[n] = <<>>
              /\ agg_lr_data = MakeLrData(AggPairs(R), has, data)
  /\ agg_result = EmptyDict
  /\ quantile_calls = 0
  /\ riskmodel = [covs |-> FALSE]
  /\ csm = <<>>
  /\ precalc_result = EmptyDict
  /\ sm_index = 0
  /\ allres = <<>>
  /\ tasks = <<>>
  /\ datastore = EmptyDict
  /\ self_gmfbytes = 0
  /\ sr_num_events = 0
  /\ cur = 0
  /\ log = <<>>
  /\ TaskIdle
  /\ EpsIdle

\* build_agg_curve runs on lr_data and EbrPostCalculator.build_agg_curve
\* stores what it returned
BuildAggCurve ==
  /\ pc = "agg_curve"
  /\ LET res == build_agg_curve(agg_lr_data, oqparam.insured_losses,
                                oqparam.ses_ratio,
                                oqparam.loss_curve_resolution)
     IN /\ agg_result' = res
        /\ datastore' = Put(datastore, <<"agg_curve-rlzs">>,
                            fill_agg_curve(res, oqparam, num_rlzs))
  /\ pc' = "agg_curve_done"
  /\ UNCHANGED <<taskVars, csm, precalc_result, sm_index, num_rlzs, allres,
                 tasks, self_gmfbytes, sr_num_events, cur, log, riskmodel,
                 epsVars, quantile_calls, agg_lr_data>>

NextAggCurve == BuildAggCurve

SpecAggCurve == InitAggCurve /\ [][NextAggCurve]_vars

\* the names of the entries the result has for (l, r)
ResultNames(l, r) ==
  {k[3] : k \in {x \in DOMAIN agg_result : x[1] = l /\ x[2] = r}}

\* the losses of one column of the records, largest first, on C points
TopLosses(data, c, C) ==
  LET col == [j \in 1..Len(data) |-> data[j].loss[c]] IN
  [i \in 1..C |-> IF i <= Len(col) THEN SortDesc(col)[i] ELSE 0]

\* the sum of one column of the records
ColumnTotal(data, c) == SumSeq([j \in 1..Len(data) |-> data[j].loss[c]])

\* C15: an empty data gives no entry for (l, r) and leaves the stored
\* curve of the pair at its zero default; a non-empty data gives 'losses',
\* 'poes' and 'avg', and 'losses_ins', 'poes_ins' and 'avg_ins' exactly when
\* insured losses are requested; the ground entries come from the ground
\* column alone and the insured entries from the insured column alone
C15_AggCurveEntries ==
  pc = "agg_curve_done" =>
    \A n \in 1..Len(agg_lr_data) :
      LET l == agg_lr_data[n][1]
          r == agg_lr_data[n][2]
          data == agg_lr_data[n][3]
          lt == loss_types[l + 1]
          C == oqparam.loss_curve_resolution
          stored == datastore[<<"agg_curve-rlzs">>]
      IN IF Len(data) = 0
         THEN /\ ResultNames(l, r) = {}
              /\ \A name \in CurveNames(oqparam.insured_losses) :
                   stored[lt, name, r]
                     = (IF name \in {"avg", "avg_ins"} THEN 0 ELSE Zeros(C))
         ELSE /\ ResultNames(l, r) = CurveNames(oqparam.insured_losses)
              /\ {"losses_ins", "poes_ins", "avg_ins"} \subseteq
                   ResultNames(l, r) <=> oqparam.insured_losses = 1
              /\ agg_result[<<l, r, "losses">>] = TopLosses(data, 1, C)
              /\ agg_result[<<l, r, "avg">>]
                   = oqparam.ses_ratio * ColumnTotal(data, 1)
              /\ oqparam.insured_losses = 1 =>
                   /\ agg_result[<<l, r, "losses_ins">>]
                        = TopLosses(data, 2, C)
                   /\ agg_result[<<l, r, "avg_ins">>]
                        = oqparam.ses_ratio * ColumnTotal(data, 2)
              /\ \A name \in ResultNames(l, r) :
                   stored[lt, name, r] = agg_result[<<l, r, name>>]

\* C15 witness: build_agg_curve ran with insured losses on a triple without
\* data and on a triple of two records whose ground and insured columns
\* differ
C15_Witness ==
  /\ pc = "agg_curve_done"
  /\ oqparam.insured_losses = 1
  /\ \E n, m \in 1..Len(agg_lr_data) :
       /\ Len(agg_lr_data[n][3]) = 0
       /\ Len(agg_lr_data[m][3]) = 2
       /\ agg_result[<<agg_lr_data[m][1], agg_lr_data[m][2], "avg">>]
            # agg_result[<<agg_lr_data[m][1], agg_lr_data[m][2], "avg_ins">>]

\* C16: what save_results returns and stores as the attribute num_events of
\* 'events' is the number of events of the calculation, the sum of the
\* multiplicities of all the ruptures, each counted once
C16_NumEventsIsTotal ==
  pc \in {"post_execute", "done", "error"} =>
    /\ sr_num_events = num_events_of(precalc_result)
    /\ datastore[<<"events">>].num_events = num_events_of(precalc_result)

====
